---------------------------- MODULE Spec2Model ----------------------------
(***************************************************************************)
(* Model of the nRF5 entropy driver, drivers/entropy/entropy_nrf5.c:       *)
(* two ring pools (ISR tier and thread tier) filled by the RNG interrupt   *)
(* handler, the "water system" START/STOP control of the generator, and    *)
(* the three consumer entry points (blocking get_entropy, non-blocking     *)
(* get_entropy_isr, busy-wait get_entropy_isr).                            *)
(*                                                                         *)
(* The driver never inspects the value of a random byte, so every byte the *)
(* hardware produces is represented by the ordinal of its sample (1, 2,    *)
(* 3, ...); 0 is the content of memory that was never written (the device  *)
(* data is a zero-initialised static; a caller's buffer starts as 0).      *)
(***************************************************************************)
EXTENDS Integers, Sequences, FiniteSets, TLC

(* ------------------------------ bounds -------------------------------- *)
\* largest pool array size (struct rng_pool.count) explored
MaxCount == 3
\* largest length passed to an entry point in the small specifications
MaxLen == 3
\* number of entry-point calls in one behaviour
MaxCalls == 2

(* ------------------------- program constants -------------------------- *)
UINT8_MAX == 255
ENOBUFS == 105
EBUSY == 16
EAGAIN == 11

Pools == {"isr", "thr"}
Threads == {"t1", "t2"}
Consumers == {"c1", "c2"}
Procs == Threads \cup Consumers

VARIABLES
    pool,       \* dev_data->isr, dev_data->thr : struct rng_pool
    sem_lock,   \* dev_data->sem_lock (count, limit 1)
    sem_sync,   \* dev_data->sem_sync (count, limit 1)
    rng,        \* NRF_RNG: generation running, EVENTS_VALRDY, VALUE
    irq_en,     \* NVIC enable bit of RNG_IRQn
    nsamples,   \* bytes read from the VALUE register and kept so far
    proc,       \* per caller: position, arguments and locals of its call
    trig,       \* the RNG task written by the last step, and by whom
    putlog,     \* history: bytes stored in each pool, in order
    getlog,     \* history: bytes removed from each pool, in order
    calls       \* entry-point calls the behaviour may still make

vars == <<pool, sem_lock, sem_sync, rng, irq_en, nsamples, proc, trig,
          putlog, getlog, calls>>

(* ------------------------------ helpers ------------------------------- *)
U8(x) == x % 256

Range(s) == {s[i] : i \in DOMAIN s}

\* number of unread bytes of a ring with indices first, last
Occ(count, first, last) ==
    IF first <= last THEN last - first ELSE count - first + last

Occupancy(r) == Occ(r.count, r.first, r.last)

IsFull(r) == Occupancy(r) = r.count - 1

NoTrig == [by |-> "none", task |-> "NONE"]

IdleProc ==
    [pc |-> "idle", op |-> "none", pool |-> "thr", len |-> 0, len8 |-> 0,
     cnt |-> 0, buf |-> <<>>, octets |-> 0, first |-> 0, last |-> 0,
     remaining |-> 0, irq_enabled |-> FALSE, ret |-> 0, got |-> <<>>,
     gets |-> 0, pool0 |-> <<>>, irq0 |-> FALSE]

(* ------------------------------ ring pool ----------------------------- *)
\* rng_pool_init: count and threshold stored, first = last = 0
rng_pool_init(len, threshold) ==
    [count |-> len, threshold |-> threshold, first |-> 0, last |-> 0,
     rand |-> [i \in 0..(len - 1) |-> 0]]

\* the bytes rand[from], ..., rand[from + n - 1], in the order "*s++" reads them
ReadRun(r, from, n) == [i \in 1..n |-> r.rand[from + i - 1]]

\* rng_pool_get with a fault: "first = last" of line 170 is missing, so that
\* after a read of both segments rng->first is left at the start of the array
rng_pool_get_first_kept(r, first, last, octets) ==
    IF first <= last
    THEN LET avail0    == last - first
             avail     == IF octets < avail0 THEN octets ELSE avail0
             remaining == IF octets < avail0 THEN avail0 - octets ELSE 0
         IN  [first     |-> U8(first + avail),
              octets    |-> U8(octets - avail),
              remaining |-> remaining,
              taken     |-> ReadRun(r, first, avail)]
    ELSE LET avail0     == r.count - first
             avail      == IF octets < avail0 THEN octets ELSE avail0
             remaining1 == IF octets < avail0 THEN U8(avail0 + last - octets)
                                              ELSE last
             first1     == IF octets < avail0 THEN U8(first + avail) ELSE 0
             octets1    == U8(octets - avail)
             taken1     == ReadRun(r, first, avail)
         IN  IF octets1 # 0 /\ last # 0
             THEN LET last2 == IF octets1 < last THEN octets1 ELSE last
                      remaining2 == IF octets1 < last THEN last - octets1 ELSE 0
                  IN  [first     |-> first1,
                       octets    |-> U8(octets1 - last2),
                       remaining |-> remaining2,
                       taken     |-> taken1 \o ReadRun(r, 0, last2)]
             ELSE [first     |-> first1,
                   octets    |-> octets1,
                   remaining |-> remaining1,
                   taken     |-> taken1]

\* rng_pool_get with a fault: line 145 without "+ last", the bytes at the
\* start of the array not counted in remaining
rng_pool_get_remaining_short(r, first, last, octets) ==
    IF first <= last
    THEN LET avail0    == last - first
             avail     == IF octets < avail0 THEN octets ELSE avail0
             remaining == IF octets < avail0 THEN avail0 - octets ELSE 0
         IN  [first     |-> U8(first + avail),
              octets    |-> U8(octets - avail),
              remaining |-> remaining,
              taken     |-> ReadRun(r, first, avail)]
    ELSE LET avail0     == r.count - first
             avail      == IF octets < avail0 THEN octets ELSE avail0
             remaining1 == IF octets < avail0 THEN U8(avail0 - octets)
                                              ELSE last
             first1     == IF octets < avail0 THEN U8(first + avail) ELSE 0
             octets1    == U8(octets - avail)
             taken1     == ReadRun(r, first, avail)
         IN  IF octets1 # 0 /\ last # 0
             THEN LET last2 == IF octets1 < last THEN octets1 ELSE last
                      remaining2 == IF octets1 < last THEN last - octets1 ELSE 0
                  IN  [first     |-> last2,
                       octets    |-> U8(octets1 - last2),
                       remaining |-> remaining2,
                       taken     |-> taken1 \o ReadRun(r, 0, last2)]
             ELSE [first     |-> first1,
                   octets    |-> octets1,
                   remaining |-> remaining1,
                   taken     |-> taken1]

\* rng_pool_get with a fault: line 127 without "- octets", remaining is the
\* count before the read
rng_pool_get_remaining_before(r, first, last, octets) ==
    IF first <= last
    THEN LET avail0    == last - first
             avail     == IF octets < avail0 THEN octets ELSE avail0
             remaining == IF octets < avail0 THEN avail0 ELSE 0
         IN  [first     |-> U8(first + avail),
              octets    |-> U8(octets - avail),
              remaining |-> remaining,
              taken     |-> ReadRun(r, first, avail)]
    ELSE LET avail0     == r.count - first
             avail      == IF octets < avail0 THEN octets ELSE avail0
             remaining1 == IF octets < avail0 THEN U8(avail0 + last - octets)
                                              ELSE last
             first1     == IF octets < avail0 THEN U8(first + avail) ELSE 0
             octets1    == U8(octets - avail)
             taken1     == ReadRun(r, first, avail)
         IN  IF octets1 # 0 /\ last # 0
             THEN LET last2 == IF octets1 < last THEN octets1 ELSE last
                      remaining2 == IF octets1 < last THEN last - octets1 ELSE 0
                  IN  [first     |-> last2,
                       octets    |-> U8(octets1 - last2),
                       remaining |-> remaining2,
                       taken     |-> taken1 \o ReadRun(r, 0, last2)]
             ELSE [first     |-> first1,
                   octets    |-> octets1,
                   remaining |-> remaining1,
                   taken     |-> taken1]

\* rng_pool_get, the index computation and the copy loops, on the values of
\* rng->first and rng->last read at its start.  The result is the new first,
\* the return value (octets not supplied), the remaining count compared with
\* the threshold, and the bytes read from the ring in the order of the reads.
rng_pool_get(r, first, last, octets) ==
    IF first <= last
    THEN \* copy octets from contiguous memory
         LET avail0    == last - first
             avail     == IF octets < avail0 THEN octets ELSE avail0
             remaining == IF octets < avail0 THEN avail0 - octets ELSE 0
         IN  [first     |-> U8(first + avail),
              octets    |-> U8(octets - avail),
              remaining |-> remaining,
              taken     |-> ReadRun(r, first, avail)]
    ELSE \* copy octets from split halves - until end of array
         LET avail0     == r.count - first
             avail      == IF octets < avail0 THEN octets ELSE avail0
             remaining1 == IF octets < avail0 THEN U8(avail0 + last - octets)
                                              ELSE last
             first1     == IF octets < avail0 THEN U8(first + avail) ELSE 0
             octets1    == U8(octets - avail)
             taken1     == ReadRun(r, first, avail)
         IN  IF octets1 # 0 /\ last # 0
             THEN \* copy from beginning of array - until ring buffer last idx
                  LET last2 == IF octets1 < last THEN octets1 ELSE last
                      remaining2 == IF octets1 < last THEN last - octets1 ELSE 0
                  IN  [first     |-> last2,
                       octets    |-> U8(octets1 - last2),
                       remaining |-> remaining2,
                       taken     |-> taken1 \o ReadRun(r, 0, last2)]
             ELSE [first     |-> first1,
                   octets    |-> octets1,
                   remaining |-> remaining1,
                   taken     |-> taken1]

\* copy_out with a fault: the buffer filled from its start ("*d++" from rand)
copy_out_forward(buf, octets, taken) ==
    [j \in DOMAIN buf |->
        IF j < Len(taken) THEN taken[j + 1] ELSE buf[j]]

\* the destination side of the copy loops: d = &rand[octets], then each byte
\* read is stored by "*(--d) = ...", so the i-th byte read lands in
\* rand[octets - i]
copy_out(buf, octets, taken) ==
    [j \in DOMAIN buf |->
        IF \E i \in 1..Len(taken) : j = octets - i
        THEN taken[octets - j]
        ELSE buf[j]]

\* rng_pool_put with a fault: the byte stored at the advanced index (the
\* local last) instead of rng->last
rng_pool_put_newslot(r, store, byte) ==
    LET last1 == IF r.last + 1 = r.count THEN 0 ELSE r.last + 1
    IN  IF last1 = r.first
        THEN [ret |-> -ENOBUFS, rng |-> r]
        ELSE IF ~store
        THEN [ret |-> -EBUSY, rng |-> r]
        ELSE LET stored == [r EXCEPT !.rand[last1] = byte, !.last = last1]
                 last2  == IF stored.last + 1 = r.count THEN 0
                                                       ELSE stored.last + 1
             IN  IF last2 = stored.first
                 THEN [ret |-> 0, rng |-> stored]
                 ELSE [ret |-> -EBUSY, rng |-> stored]

\* rng_pool_put with a fault: the test "last == rng->first" before the store
\* is missing
rng_pool_put_unchecked(r, store, byte) ==
    LET last1 == IF r.last + 1 = r.count THEN 0 ELSE r.last + 1
    IN  IF ~store
        THEN [ret |-> -EBUSY, rng |-> r]
        ELSE LET stored == [r EXCEPT !.rand[r.last] = byte, !.last = last1]
                 last2  == IF stored.last + 1 = r.count THEN 0
                                                       ELSE stored.last + 1
             IN  IF last2 = stored.first
                 THEN [ret |-> 0, rng |-> stored]
                 ELSE [ret |-> -EBUSY, rng |-> stored]

\* rng_pool_put with a fault: the advanced index is not wrapped to 0 at
\* rng->count (lines 198-200 missing)
rng_pool_put_nowrap(r, store, byte) ==
    LET last1 == r.last + 1
    IN  IF last1 = r.first
        THEN [ret |-> -ENOBUFS, rng |-> r]
        ELSE IF ~store
        THEN [ret |-> -EBUSY, rng |-> r]
        ELSE LET stored == [r EXCEPT !.rand[r.last] = byte, !.last = last1]
                 last2  == IF stored.last + 1 = r.count THEN 0
                                                       ELSE stored.last + 1
             IN  IF last2 = stored.first
                 THEN [ret |-> 0, rng |-> stored]
                 ELSE [ret |-> -EBUSY, rng |-> stored]

\* rng_pool_put: the return value and the pool afterwards
rng_pool_put(r, store, byte) ==
    LET last1 == IF r.last + 1 = r.count THEN 0 ELSE r.last + 1
    IN  IF last1 = r.first
        THEN [ret |-> -ENOBUFS, rng |-> r]
        ELSE IF ~store
        THEN [ret |-> -EBUSY, rng |-> r]
        ELSE LET stored == [r EXCEPT !.rand[r.last] = byte, !.last = last1]
                 last2  == IF stored.last + 1 = r.count THEN 0
                                                       ELSE stored.last + 1
             IN  IF last2 = stored.first
                 THEN [ret |-> 0, rng |-> stored]
                 ELSE [ret |-> -EBUSY, rng |-> stored]

(* ------------------------------ hardware ------------------------------ *)
\* random_byte_get: under irq_lock, the value if VALRDY is set (the event is
\* then cleared), -EAGAIN otherwise
random_byte_get(h) ==
    IF h.event
    THEN [ret |-> h.value, rng |-> [h EXCEPT !.event = FALSE]]
    ELSE [ret |-> -EAGAIN, rng |-> h]

\* nrf_rng_task_trigger(NRF_RNG_TASK_START / NRF_RNG_TASK_STOP)
task_start(h) == [h EXCEPT !.running = TRUE]
task_stop(h) == [h EXCEPT !.running = FALSE]

\* The generator, once started, raises VALRDY with a new value and keeps
\* doing so until stopped.  Only a byte that is kept (stored in a pool or in
\* a caller's buffer) gets an ordinal: VALUE holds the ordinal the next byte
\* kept will have.
HwReady ==
    /\ rng.running
    /\ ~rng.event
    /\ rng' = [rng EXCEPT !.event = TRUE, !.value = nsamples + 1]
    /\ trig' = NoTrig
    /\ UNCHANGED <<pool, sem_lock, sem_sync, irq_en, nsamples, proc, putlog,
                   getlog, calls>>

(* -------------------------- kernel semaphores ------------------------- *)
\* k_sem_take(sem, K_FOREVER) returns only when the count is positive
k_sem_can_take(sem) == sem > 0
k_sem_take(sem) == sem - 1
\* k_sem_give with limit 1
k_sem_give(sem) == IF sem < 1 THEN sem + 1 ELSE sem

(* ------------------------- interrupt line ----------------------------- *)
\* irq_disable with a fault: the line is left as it is
irq_disable_noop(line) == line

\* irq_restore with a fault: the line is enabled whatever it was at entry
irq_enable_always(irq_enabled, line) == TRUE

\* line 303: irq_disable(RNG_IRQn)
irq_disable(line) == FALSE

\* lines 328-330: the interrupt line after the sampling loop
irq_restore(irq_enabled, line) == IF irq_enabled THEN TRUE ELSE line

(* ---------------------------- scheduling ------------------------------ *)
\* One CPU.  The callers of get_entropy_isr run in interrupt context: "c2"
\* preempts "c1", both preempt the threads, and a preempted caller makes no
\* step until the preempting call has returned.  The RNG handler preempts
\* every caller.
Higher(p) == IF p \in Threads THEN Consumers
             ELSE IF p = "c1" THEN {"c2"} ELSE {}

CanRun(p) == \A q \in Higher(p) : proc[q].pc = "idle"

ZeroBuf(len) == [i \in 0..(len - 1) |-> 0]

Min(a, b) == IF a < b THEN a ELSE b

(* ------------------------- interrupt handler -------------------------- *)
\* isr_effect with a fault: STOP as soon as the ISR tier is full, whatever
\* the thread tier's put returned
isr_effect_stop_any(pl, h, sem) ==
    LET b == random_byte_get(h)
    IN  IF b.ret < 0
        THEN [pool |-> pl, rng |-> b.rng, sem_sync |-> sem, stop |-> FALSE]
        ELSE LET r1 == rng_pool_put(pl["isr"], TRUE, b.ret)
             IN  IF r1.ret # -EBUSY
                 THEN LET r2 == rng_pool_put(pl["thr"], r1.ret = -ENOBUFS, b.ret)
                      IN  [pool     |-> [isr |-> r1.rng, thr |-> r2.rng],
                           rng      |-> task_stop(b.rng),
                           sem_sync |-> k_sem_give(sem),
                           stop     |-> TRUE]
                 ELSE [pool     |-> [isr |-> r1.rng, thr |-> pl["thr"]],
                       rng      |-> b.rng,
                       sem_sync |-> sem,
                       stop     |-> FALSE]

\* isr_effect with a fault: the thread tier's put is told to store whatever
\* the ISR tier's put returned
isr_effect_store_both(pl, h, sem) ==
    LET b == random_byte_get(h)
    IN  IF b.ret < 0
        THEN [pool |-> pl, rng |-> b.rng, sem_sync |-> sem, stop |-> FALSE]
        ELSE LET r1 == rng_pool_put(pl["isr"], TRUE, b.ret)
             IN  IF r1.ret # -EBUSY
                 THEN LET r2 == rng_pool_put(pl["thr"], TRUE, b.ret)
                      IN  [pool     |-> [isr |-> r1.rng, thr |-> r2.rng],
                           rng      |-> IF r2.ret # -EBUSY THEN task_stop(b.rng)
                                                           ELSE b.rng,
                           sem_sync |-> k_sem_give(sem),
                           stop     |-> r2.ret # -EBUSY]
                 ELSE [pool     |-> [isr |-> r1.rng, thr |-> pl["thr"]],
                       rng      |-> b.rng,
                       sem_sync |-> sem,
                       stop     |-> FALSE]

\* isr_effect with a fault: k_sem_give after the if block, in every
\* invocation that sampled a byte
isr_effect_give_always(pl, h, sem) ==
    LET b == random_byte_get(h)
    IN  IF b.ret < 0
        THEN [pool |-> pl, rng |-> b.rng, sem_sync |-> sem, stop |-> FALSE]
        ELSE LET r1 == rng_pool_put(pl["isr"], TRUE, b.ret)
             IN  IF r1.ret # -EBUSY
                 THEN LET r2 == rng_pool_put(pl["thr"], r1.ret = -ENOBUFS, b.ret)
                      IN  [pool     |-> [isr |-> r1.rng, thr |-> r2.rng],
                           rng      |-> IF r2.ret # -EBUSY THEN task_stop(b.rng)
                                                           ELSE b.rng,
                           sem_sync |-> k_sem_give(sem),
                           stop     |-> r2.ret # -EBUSY]
                 ELSE [pool     |-> [isr |-> r1.rng, thr |-> pl["thr"]],
                       rng      |-> b.rng,
                       sem_sync |-> k_sem_give(sem),
                       stop     |-> FALSE]

\* isr_effect with a fault: the store argument of the thread tier's put
\* inverted, "ret != -ENOBUFS"
isr_effect_store_inverted(pl, h, sem) ==
    LET b == random_byte_get(h)
    IN  IF b.ret < 0
        THEN [pool |-> pl, rng |-> b.rng, sem_sync |-> sem, stop |-> FALSE]
        ELSE LET r1 == rng_pool_put(pl["isr"], TRUE, b.ret)
             IN  IF r1.ret # -EBUSY
                 THEN LET r2 == rng_pool_put(pl["thr"], r1.ret # -ENOBUFS, b.ret)
                      IN  [pool     |-> [isr |-> r1.rng, thr |-> r2.rng],
                           rng      |-> IF r2.ret # -EBUSY THEN task_stop(b.rng)
                                                           ELSE b.rng,
                           sem_sync |-> k_sem_give(sem),
                           stop     |-> r2.ret # -EBUSY]
                 ELSE [pool     |-> [isr |-> r1.rng, thr |-> pl["thr"]],
                       rng      |-> b.rng,
                       sem_sync |-> sem,
                       stop     |-> FALSE]

\* isr(): the pools, the generator and sem_sync after one invocation, and
\* whether it wrote TASKS_STOP
isr_effect(pl, h, sem) ==
    LET b == random_byte_get(h)
    IN  IF b.ret < 0
        THEN [pool |-> pl, rng |-> b.rng, sem_sync |-> sem, stop |-> FALSE]
        ELSE LET r1 == rng_pool_put(pl["isr"], TRUE, b.ret)
             IN  IF r1.ret # -EBUSY
                 THEN LET r2 == rng_pool_put(pl["thr"], r1.ret = -ENOBUFS, b.ret)
                      IN  [pool     |-> [isr |-> r1.rng, thr |-> r2.rng],
                           rng      |-> IF r2.ret # -EBUSY THEN task_stop(b.rng)
                                                           ELSE b.rng,
                           sem_sync |-> k_sem_give(sem),
                           stop     |-> r2.ret # -EBUSY]
                 ELSE [pool     |-> [isr |-> r1.rng, thr |-> pl["thr"]],
                       rng      |-> b.rng,
                       sem_sync |-> sem,
                       stop     |-> FALSE]

\* The handler runs when RNG_IRQn is enabled and VALRDY is set.  "late": the
\* generator made its next value ready before TASKS_STOP took effect (the
\* race the comment in rng_pool_put describes).
isr ==
    /\ irq_en
    /\ rng.event
    /\ \E late \in BOOLEAN :
         LET e == isr_effect(pool, rng, sem_sync)
             fresh == late /\ e.stop /\ rng.running
             kept  == IF e.pool = pool THEN 0 ELSE 1
         IN  /\ pool' = e.pool
             /\ sem_sync' = e.sem_sync
             /\ rng' = IF fresh
                       THEN [e.rng EXCEPT !.event = TRUE,
                                          !.value = nsamples + kept + 1]
                       ELSE e.rng
             /\ nsamples' = nsamples + kept
             /\ trig' = [by |-> "isr", task |-> IF e.stop THEN "STOP" ELSE "NONE"]
             /\ putlog' = [p \in Pools |->
                             IF e.pool[p].last # pool[p].last
                             THEN Append(putlog[p], rng.value)
                             ELSE putlog[p]]
    /\ UNCHANGED <<sem_lock, irq_en, proc, getlog, calls>>

(* --------------------------- rng_pool_get ----------------------------- *)
\* rng_pool_get line 117-118: first = rng->first; last = rng->last
get_snapshot(pr, pl) == [pr EXCEPT !.first = pl.first, !.last = pl.last]

\* rng_pool_get lines 120-179: the copy into the caller's buffer and the
\* store of rng->first
get_copy(p) ==
    /\ proc[p].pc = "get_copy"
    /\ CanRun(p)
    /\ LET pr == proc[p]
           g  == rng_pool_get(pool[pr.pool], pr.first, pr.last, pr.octets)
       IN  /\ pool' = [pool EXCEPT ![pr.pool].first = g.first]
           /\ proc' = [proc EXCEPT ![p] =
                         [pr EXCEPT !.pc = "get_start",
                                    !.buf = copy_out(pr.buf, pr.octets, g.taken),
                                    !.ret = g.octets,
                                    !.remaining = g.remaining,
                                    !.got = pr.got \o g.taken,
                                    !.gets = Min(pr.gets + 1, 2)]]
           /\ getlog' = [getlog EXCEPT ![pr.pool] = getlog[pr.pool] \o g.taken]
    /\ trig' = NoTrig
    /\ UNCHANGED <<sem_lock, sem_sync, rng, irq_en, nsamples, putlog, calls>>

\* below_threshold with a fault: the comparison off by one, either way
below_threshold_less_one(remaining, threshold) == remaining < threshold - 1
below_or_at_threshold(remaining, threshold) == remaining <= threshold

\* below_threshold with a fault: no test, START at the end of every get
below_threshold_always(remaining, threshold) == TRUE

\* rng_pool_get lines 181-183: the watermark test
below_threshold(remaining, threshold) == remaining < threshold

\* rng_pool_get lines 181-185, and the caller's use of the return value
\* (len8 = ... in get_entropy, return ... in get_entropy_isr)
get_start(p) ==
    /\ proc[p].pc = "get_start"
    /\ CanRun(p)
    /\ LET pr == proc[p]
           start == below_threshold(pr.remaining, pool[pr.pool].threshold)
       IN  /\ rng' = IF start THEN task_start(rng) ELSE rng
           /\ trig' = [by |-> p, task |-> IF start THEN "START" ELSE "NONE"]
           /\ proc' = [proc EXCEPT ![p] =
                         IF pr.op = "blocking"
                         THEN [pr EXCEPT !.pc = "ge_give", !.len8 = pr.ret]
                         ELSE [pr EXCEPT !.pc = "ret"]]
    /\ UNCHANGED <<pool, sem_lock, sem_sync, irq_en, nsamples, putlog, getlog, calls>>

(* ------------------------ blocking get_entropy ------------------------ *)
\* entropy_nrf5_get_entropy lines 262-270: the next chunk of at most
\* UINT8_MAX bytes, or the return once len is 0
next_chunk(pr) ==
    IF pr.len # 0
    THEN LET len8 == IF pr.len > UINT8_MAX THEN UINT8_MAX ELSE pr.len
         IN  [pr EXCEPT !.pc = "ge_take", !.len8 = len8, !.len = pr.len - len8]
    ELSE [pr EXCEPT !.pc = "ret", !.ret = 0]

\* a thread calls get_entropy(buf, len)
get_entropy_call(t, len) ==
    /\ proc[t].pc = "idle"
    /\ CanRun(t)
    /\ calls > 0
    /\ calls' = calls - 1
    /\ proc' = [proc EXCEPT ![t] =
                  next_chunk([IdleProc EXCEPT !.op = "blocking", !.pool = "thr",
                                              !.len = len, !.cnt = len,
                                              !.buf = ZeroBuf(len)])]
    /\ trig' = NoTrig
    /\ UNCHANGED <<pool, sem_lock, sem_sync, rng, irq_en, nsamples, putlog, getlog>>

\* ge_take with a fault: rng_pool_get entered without taking sem_lock
ge_take_nolock(t) ==
    /\ proc[t].pc = "ge_take"
    /\ CanRun(t)
    /\ proc' = [proc EXCEPT ![t] =
                  get_snapshot([proc[t] EXCEPT !.pc = "get_copy",
                                               !.octets = proc[t].len8],
                               pool["thr"])]
    /\ trig' = NoTrig
    /\ UNCHANGED <<pool, sem_lock, sem_sync, rng, irq_en, nsamples, putlog,
                   getlog, calls>>

\* line 273-275: k_sem_take(&sem_lock, K_FOREVER), then rng_pool_get is
\* entered with octets = len8 and reads first and last
ge_take(t) ==
    /\ proc[t].pc = "ge_take"
    /\ CanRun(t)
    /\ k_sem_can_take(sem_lock)
    /\ sem_lock' = k_sem_take(sem_lock)
    /\ proc' = [proc EXCEPT ![t] =
                  get_snapshot([proc[t] EXCEPT !.pc = "get_copy",
                                               !.octets = proc[t].len8],
                               pool["thr"])]
    /\ trig' = NoTrig
    /\ UNCHANGED <<pool, sem_sync, rng, irq_en, nsamples, putlog, getlog, calls>>

\* line 276-277: k_sem_give(&sem_lock), then the test of len8
ge_give(t) ==
    /\ proc[t].pc = "ge_give"
    /\ CanRun(t)
    /\ sem_lock' = k_sem_give(sem_lock)
    /\ proc' = [proc EXCEPT ![t] =
                  IF proc[t].len8 # 0
                  THEN [proc[t] EXCEPT !.pc = "ge_wait"]
                  ELSE next_chunk(proc[t])]
    /\ trig' = NoTrig
    /\ UNCHANGED <<pool, sem_sync, rng, irq_en, nsamples, putlog, getlog, calls>>

\* line 279: k_sem_take(&sem_sync, K_FOREVER), sleep until next interrupt
ge_wait(t) ==
    /\ proc[t].pc = "ge_wait"
    /\ CanRun(t)
    /\ k_sem_can_take(sem_sync)
    /\ sem_sync' = k_sem_take(sem_sync)
    /\ proc' = [proc EXCEPT ![t].pc = "ge_take"]
    /\ trig' = NoTrig
    /\ UNCHANGED <<pool, sem_lock, rng, irq_en, nsamples, putlog, getlog, calls>>

(* ----------------------- get_entropy_isr ------------------------------ *)
\* No other caller is inside a non-blocking get on the ISR-tier pool: the
\* pool has one reader at a time.
SingleReader(c) ==
    \A q \in Consumers \ {c} : proc[q].op # "nonblock"

\* get_entropy_isr(buf, len, 0): line 294, rng_pool_get on the ISR-tier
\* pool; its u8_t octets parameter receives the u16_t len
get_entropy_isr_call(c, len) ==
    /\ proc[c].pc = "idle"
    /\ CanRun(c)
    /\ SingleReader(c)
    /\ calls > 0
    /\ calls' = calls - 1
    /\ proc' = [proc EXCEPT ![c] =
                  get_snapshot([IdleProc EXCEPT !.op = "nonblock", !.pool = "isr",
                                                !.pc = "get_copy",
                                                !.len = len, !.cnt = len,
                                                !.octets = U8(len),
                                                !.buf = ZeroBuf(len)],
                               pool["isr"])]
    /\ trig' = NoTrig
    /\ UNCHANGED <<pool, sem_lock, sem_sync, rng, irq_en, nsamples, putlog, getlog>>

\* get_entropy_isr(buf, len, ENTROPY_BUSYWAIT), lines 297-307: the state of
\* the interrupt line is saved, the line disabled, VALRDY cleared and the
\* generator started; with len = 0 the call returns cnt at once
busywait_call(c, len) ==
    /\ proc[c].pc = "idle"
    /\ CanRun(c)
    /\ calls > 0
    /\ calls' = calls - 1
    /\ LET pr == [IdleProc EXCEPT !.op = "busywait", !.len = len, !.cnt = len,
                                  !.buf = ZeroBuf(len), !.pool0 = pool,
                                  !.irq0 = irq_en]
       IN  IF len # 0
           THEN /\ proc' = [proc EXCEPT ![c] =
                              [pr EXCEPT !.pc = "bw_loop", !.irq_enabled = irq_en]]
                /\ irq_en' = irq_disable(irq_en)
                /\ rng' = task_start([rng EXCEPT !.event = FALSE])
                /\ trig' = [by |-> c, task |-> "START"]
           ELSE /\ proc' = [proc EXCEPT ![c] = [pr EXCEPT !.pc = "ret", !.ret = len]]
                /\ UNCHANGED <<irq_en, rng>>
                /\ trig' = NoTrig
    /\ UNCHANGED <<pool, sem_lock, sem_sync, nsamples, putlog, getlog>>

\* lines 309-333, one pass of the do-while: wait for VALRDY, sample the byte,
\* store it at buf[--len]; after the last byte the interrupt line is
\* restored and cnt returned
bw_loop(c) ==
    /\ proc[c].pc = "bw_loop"
    /\ CanRun(c)
    /\ rng.event
    /\ LET pr == proc[c]
           b  == random_byte_get(rng)
       IN  /\ rng' = b.rng
           /\ nsamples' = IF b.ret < 0 THEN nsamples ELSE nsamples + 1
           /\ IF b.ret < 0
              THEN UNCHANGED <<proc, irq_en>>
              ELSE LET len1 == pr.len - 1
                       pr1  == [pr EXCEPT !.len = len1,
                                          !.buf = [pr.buf EXCEPT ![len1] = b.ret],
                                          !.got = Append(pr.got, b.ret)]
                   IN  IF len1 # 0
                       THEN /\ proc' = [proc EXCEPT ![c] = pr1]
                            /\ UNCHANGED irq_en
                       ELSE /\ proc' = [proc EXCEPT ![c] =
                                          [pr1 EXCEPT !.pc = "ret", !.ret = pr.cnt]]
                            /\ irq_en' = irq_restore(pr.irq_enabled, irq_en)
    /\ trig' = NoTrig
    /\ UNCHANGED <<pool, sem_lock, sem_sync, putlog, getlog, calls>>

\* the caller takes the result; its buffer and locals go out of scope
api_return(p) ==
    /\ proc[p].pc = "ret"
    /\ CanRun(p)
    /\ proc' = [proc EXCEPT ![p] = IdleProc]
    /\ trig' = NoTrig
    /\ UNCHANGED <<pool, sem_lock, sem_sync, rng, irq_en, nsamples, putlog,
                   getlog, calls>>

(* ------------------------- initial states ----------------------------- *)
\* pool configurations: array size and threshold of each tier, with
\* count >= 2 and threshold < count
PoolCfgs(maxCount) ==
    {c \in (2..maxCount) \X (0..(maxCount - 1)) : c[2] < c[1]}

\* entropy_nrf5_init: semaphores, pools, event cleared, generator started,
\* interrupt line enabled
InitWith(isrCfgs, thrCfgs, budget) ==
    /\ \E ic \in isrCfgs, tc \in thrCfgs :
          pool = [isr |-> rng_pool_init(ic[1], ic[2]),
                  thr |-> rng_pool_init(tc[1], tc[2])]
    /\ sem_lock = 1
    /\ sem_sync = 0
    /\ rng = [running |-> TRUE, event |-> FALSE, value |-> 0]
    /\ irq_en = TRUE
    /\ nsamples = 0
    /\ proc = [p \in Procs |-> IdleProc]
    /\ trig = NoTrig
    /\ putlog = [p \in Pools |-> <<>>]
    /\ getlog = [p \in Pools |-> <<>>]
    /\ calls = budget

Lens == 0..MaxLen

(* ---- Spec: one blocking thread and one non-blocking ISR-tier caller --- *)
\* one call for each of the two callers
Init ==
    InitWith({<<MaxCount, 1>>}, {<<MaxCount, 1>>, <<MaxCount, MaxCount - 1>>},
             Cardinality({"t1", "c1"}))

Next ==
    \/ HwReady
    \/ isr
    \/ \E t \in {"t1"}, len \in Lens : get_entropy_call(t, len)
    \/ \E t \in {"t1"} : ge_take(t) \/ ge_give(t) \/ ge_wait(t)
    \/ \E c \in {"c1"}, len \in Lens : get_entropy_isr_call(c, len)
    \/ \E p \in {"t1", "c1"} : get_copy(p) \/ get_start(p) \/ api_return(p)

Spec == Init /\ [][Next]_vars

(* ---- SpecThreads: two threads in blocking get_entropy ----------------- *)
\* one call for each thread
InitThreads == InitWith({<<2, 0>>}, {<<MaxCount, 1>>}, Cardinality(Threads))

NextThreads ==
    \/ HwReady
    \/ isr
    \/ \E t \in Threads, len \in (MaxLen - 1)..MaxLen : get_entropy_call(t, len)
    \/ \E t \in Threads :
          \/ ge_take(t) \/ ge_give(t) \/ ge_wait(t)
          \/ get_copy(t) \/ get_start(t) \/ api_return(t)

SpecThreads == InitThreads /\ [][NextThreads]_vars

(* ---- SpecChunk: one thread asking for a chunk or more ----------------- *)
InitChunk == InitWith({<<2, 0>>}, {<<MaxCount, 1>>}, 1)

ChunkLens == {UINT8_MAX, UINT8_MAX + 1}

ThreadStep(t) ==
    \/ ge_take(t) \/ ge_give(t) \/ ge_wait(t)
    \/ get_copy(t) \/ get_start(t) \/ api_return(t)

NextChunk ==
    \/ HwReady
    \/ isr
    \/ \E len \in ChunkLens : get_entropy_call("t1", len)
    \/ ThreadStep("t1")

SpecChunk == InitChunk /\ [][NextChunk]_vars

(* ---- SpecLive: one thread, every configuration, fair scheduling ------- *)
\* Only a get on the ISR-tier pool reads that pool's size or threshold,
\* and this specification has none: the ISR tier is the smallest pool and
\* the thread tier takes every size and threshold.
InitLive == InitWith({<<2, 0>>}, PoolCfgs(MaxCount), MaxCalls - 1)

NextLive ==
    \/ HwReady
    \/ isr
    \/ \E len \in 1..MaxLen : get_entropy_call("t1", len)
    \/ ThreadStep("t1")

\* The generator keeps producing while it runs, a pending interrupt is
\* served, and the only runnable thread is scheduled.
SpecLive ==
    /\ InitLive
    /\ [][NextLive]_vars
    /\ WF_vars(HwReady)
    /\ WF_vars(isr)
    /\ WF_vars(ThreadStep("t1"))

(* ---- SpecBusy: nested interrupt-context callers of get_entropy_isr ---- *)
InitBusy == InitWith({<<MaxCount, 1>>}, {<<2, 0>>}, MaxCalls)

NextBusy ==
    \/ HwReady
    \/ isr
    \/ \E c \in Consumers, len \in Lens : busywait_call(c, len)
    \/ \E len \in Lens : get_entropy_isr_call("c1", len)
    \/ \E c \in Consumers : bw_loop(c) \/ api_return(c)
    \/ get_copy("c1") \/ get_start("c1")

SpecBusy == InitBusy /\ [][NextBusy]_vars

(* ---- SpecPool: one pool, larger arrays, puts and non-blocking gets ---- *)
InitPool == InitWith(PoolCfgs(MaxCount + 1), {<<2, 0>>}, MaxCalls + 1)

NextPool ==
    \/ HwReady
    \/ isr
    \/ \E len \in 0..(MaxLen + 1) : get_entropy_isr_call("c1", len)
    \/ get_copy("c1") \/ get_start("c1") \/ api_return("c1")

SpecPool == InitPool /\ [][NextPool]_vars

(* ---- SpecWide: non-blocking gets with lengths around 2^8 ------------- *)
InitWide == InitWith({<<MaxCount, 1>>}, {<<2, 0>>}, MaxCalls)

WideLens == {UINT8_MAX, UINT8_MAX + 1, UINT8_MAX + 2}

NextWide ==
    \/ HwReady
    \/ isr
    \/ \E len \in WideLens : get_entropy_isr_call("c1", len)
    \/ get_copy("c1") \/ get_start("c1") \/ api_return("c1")

SpecWide == InitWide /\ [][NextWide]_vars

(* ============================== claims ================================ *)
IsPrefix(a, b) == Len(a) <= Len(b) /\ \A i \in 1..Len(a) : a[i] = b[i]

\* the buffer positions 0..n-1 hold pairwise different bytes
Distinct(buf, n) == \A i, j \in 0..(n - 1) : i # j => buf[i] # buf[j]

BlockingDone(t) == proc[t].pc = "ret" /\ proc[t].op = "blocking"
NonblockDone(c) == proc[c].pc = "ret" /\ proc[c].op = "nonblock"
BusywaitDone(c) == proc[c].pc = "ret" /\ proc[c].op = "busywait"

\* C1: when blocking get_entropy(buf, length) returns, for every length >= 1
\* (also above the 255-byte chunk), exactly length bytes were removed from
\* the thread-tier pool and every position buf[0..length-1] holds one of
\* them, each removed byte in a position of its own.
C1_ExactDelivery ==
    \A t \in Threads :
        (BlockingDone(t) /\ proc[t].cnt >= 1) =>
            /\ Len(proc[t].got) = proc[t].cnt
            /\ \A i \in 0..(proc[t].cnt - 1) : proc[t].buf[i] \in Range(proc[t].got)
            /\ Distinct(proc[t].buf, proc[t].cnt)

InCall(t) == proc[t].pc \notin {"idle", "ret"}

\* C2 as stated: for every configuration init allows (threshold 0 included)
\* a blocking call returns; then no call in progress is ever left in a state
\* from which no step is possible.
C2_EveryConfigReturns == InCall("t1") => ENABLED NextLive

\* C2 amended: with a thread-tier threshold of at least 1, under fair
\* hardware, handler and thread scheduling, every blocking call in progress
\* eventually returns.
C2_Returns ==
    (InCall("t1") /\ pool["thr"].threshold >= 1) ~> (proc["t1"].pc = "ret")

\* a blocking call returned after it had to wait for bytes
C2_Witness ==
    /\ BlockingDone("t1")
    /\ proc["t1"].gets >= 2
    /\ pool["thr"].threshold >= 1
    /\ proc["t1"].cnt > pool["thr"].count - 1

\* C3: non-blocking get_entropy_isr returns the number of bytes it delivered,
\* min(length, ISR-tier occupancy at the call), not the number it failed to
\* deliver.
C3_ReturnsDelivered ==
    \A c \in Consumers :
        NonblockDone(c) =>
            /\ proc[c].ret = Len(proc[c].got)
            /\ proc[c].ret =
                  Min(proc[c].len,
                      Occ(pool["isr"].count, proc[c].first, proc[c].last))

\* C4: the bytes removed from a pool by successive gets, in removal order,
\* are a prefix of the bytes stored in it by put: none skipped, duplicated
\* or reordered.
C4_Fifo == \A p \in Pools : IsPrefix(getlog[p], putlog[p])

\* a get that read across the end of the array (both segments) has removed
\* its bytes
C4_Witness ==
    /\ proc["c1"].pc = "get_start"
    /\ proc["c1"].first > proc["c1"].last
    /\ pool["isr"].first > 0
    /\ pool["isr"].first <= proc["c1"].last
    /\ Len(getlog["isr"]) > pool["isr"].count

\* a blocking call of at most one chunk
OneChunkDone(t) ==
    BlockingDone(t) /\ proc[t].cnt >= 1 /\ proc[t].cnt <= UINT8_MAX

\* C5 as stated: on return buf[0..n-1] holds the delivered bytes in production
\* order, buf[0] the earliest.
C5_ProductionOrder ==
    \A t \in Threads :
        OneChunkDone(t) =>
            \A i \in 0..(proc[t].cnt - 1) : proc[t].buf[i] = proc[t].got[i + 1]

\* C5 amended: on return buf[0..n-1] holds the n delivered bytes in reverse
\* production order: buf[n-1] is the earliest byte removed, buf[0] the latest.
C5_ReverseOrder ==
    \A t \in Threads :
        OneChunkDone(t) =>
            /\ Len(proc[t].got) = proc[t].cnt
            /\ \A i \in 0..(proc[t].cnt - 1) :
                  proc[t].buf[i] = proc[t].got[proc[t].cnt - i]

\* a call for several bytes that needed several gets has returned
C5_Witness ==
    /\ OneChunkDone("t1")
    /\ proc["t1"].cnt >= 2
    /\ proc["t1"].gets >= 2

\* position of byte x in the thread-tier pool's stream
ThrPos(x) == CHOOSE k \in 1..Len(putlog["thr"]) : putlog["thr"][k] = x

\* the bytes of g are a contiguous run of the thread-tier stream
ContiguousRun(g) ==
    \E k \in 0..Len(putlog["thr"]) :
        /\ k + Len(g) <= Len(putlog["thr"])
        /\ \A i \in 1..Len(g) : g[i] = putlog["thr"][k + i]

\* C6 as stated: with two threads in blocking get_entropy, each caller's
\* bytes are a contiguous run of the thread-tier stream.
C6_ContiguousRuns ==
    \A t \in Threads : BlockingDone(t) => ContiguousRun(proc[t].got)

\* C6 amended: the callers' bytes do not overlap and each caller receives
\* bytes of the thread-tier stream in stream order, but not necessarily a
\* contiguous run: the other caller's get may take bytes in between.
C6_DisjointOrdered ==
    /\ \A t, u \in Threads :
          t # u => Range(proc[t].got) \cap Range(proc[u].got) = {}
    /\ \A t \in Threads :
          /\ Range(proc[t].got) \subseteq Range(putlog["thr"])
          /\ \A i, j \in 1..Len(proc[t].got) :
                i < j => ThrPos(proc[t].got[i]) < ThrPos(proc[t].got[j])

\* both threads have returned from calls that overlapped in time, one of
\* them with bytes from both sides of the other's
C6_Witness ==
    /\ BlockingDone("t1")
    /\ BlockingDone("t2")
    /\ Len(proc["t2"].got) >= 1
    /\ Len(proc["t1"].got) >= 2
    /\ ~ContiguousRun(proc["t1"].got)

\* C7: a handler invocation issues STOP if and only if both pools are full
\* after its puts; with only one tier full it issues none.
C7_StopIffBothFull ==
    trig.by = "isr" =>
        (trig.task = "STOP" <=> (IsFull(pool["isr"]) /\ IsFull(pool["thr"])))

\* the handler has issued STOP, after invocations that stored bytes in the
\* thread tier while only the ISR tier was full
C7_Witness ==
    /\ trig = [by |-> "isr", task |-> "STOP"]
    /\ Len(putlog["thr"]) >= 2

\* the call of the get that made the last step
LastGet == proc[trig.by]

ByGet == trig.by \in Procs /\ LastGet.op \in {"blocking", "nonblock"}

\* C8 as stated: START is triggered once per threshold crossing, only by the
\* get that takes the occupancy from >= threshold to < threshold.
C8_OncePerCrossing ==
    (ByGet /\ trig.task = "START") =>
        Occ(pool[LastGet.pool].count, LastGet.first, LastGet.last)
            >= pool[LastGet.pool].threshold

\* C8 amended: every get that leaves fewer than threshold bytes in the pool
\* (by the first and last it read) triggers START, also a get that found the
\* pool below threshold already; a get that leaves threshold bytes or more
\* triggers none.
C8_StartWheneverBelow ==
    ByGet =>
        (trig.task = "START" <=>
            Occ(pool[LastGet.pool].count, pool[LastGet.pool].first, LastGet.last)
                < pool[LastGet.pool].threshold)

\* a get that found the pool below threshold, removed a byte and triggered
\* START again
C8_Witness ==
    /\ ByGet
    /\ trig.task = "START"
    /\ Occ(pool[LastGet.pool].count, LastGet.first, LastGet.last)
          < pool[LastGet.pool].threshold
    /\ LastGet.first # pool[LastGet.pool].first

\* all bytes ever stored in a pool
Pooled == Range(putlog["isr"]) \cup Range(putlog["thr"])

\* the step by which a busy-wait call returns
BusywaitExit(c) ==
    proc[c].pc # "ret" /\ proc'[c].pc = "ret" /\ proc'[c].op = "busywait"

\* C9: busy-wait get_entropy_isr with length >= 1 returns length, after length
\* bytes sampled from the hardware (none of them a byte of a pool) were
\* written to buf[0..length-1]; during the call, up to and including its
\* return, both pools are as they were at entry.
C9_BusywaitBypassesPools ==
    /\ [](\A c \in Consumers : proc[c].pc = "bw_loop" => pool = proc[c].pool0)
    /\ [][\A c \in Consumers :
            /\ proc[c].pc = "bw_loop" => pool' = pool
            /\ (BusywaitExit(c) /\ proc'[c].cnt >= 1) =>
                  /\ proc'[c].ret = proc'[c].cnt
                  /\ Len(proc'[c].got) = proc'[c].cnt
                  /\ \A i \in 0..(proc'[c].cnt - 1) :
                        /\ proc'[c].buf[i] = proc'[c].got[proc'[c].cnt - i]
                        /\ proc'[c].buf[i] # 0
                        /\ proc'[c].buf[i] \notin Pooled'
                  /\ Distinct(proc'[c].buf, proc'[c].cnt)]_vars

\* a busy-wait call for several bytes has returned while the pools hold bytes
C9_Witness ==
    /\ BusywaitDone("c1")
    /\ proc["c1"].cnt >= 2
    /\ Occupancy(pool["isr"]) >= 1

\* C10: at every exit of busy-wait get_entropy_isr the interrupt line is as
\* it was at entry (enabled or disabled), and during the sampling loop the
\* line is disabled and the handler cannot run.
C10_IrqRestored ==
    /\ [](\A c \in Consumers : proc[c].pc = "bw_loop" => (~irq_en /\ ~ENABLED isr))
    /\ [][\A c \in Consumers : BusywaitExit(c) => irq_en' = proc'[c].irq0]_vars

\* a nested busy-wait call that found the line disabled has returned and
\* left it disabled
C10_Witness ==
    /\ BusywaitDone("c2")
    /\ proc["c2"].cnt >= 1
    /\ ~proc["c2"].irq0
    /\ ~irq_en
    /\ proc["c1"].pc = "bw_loop"

\* C11: while a pool holds count-1 unread bytes, a put (with either value of
\* its store argument) returns -ENOBUFS and changes nothing; and every step
\* taken while the pool is full and that is not a get moving first (the
\* handler's puts among them) leaves first, last and the stored bytes as
\* they were.
C11_FullPutRejected ==
    /\ [](\A p \in Pools :
            IsFull(pool[p]) =>
                \A store \in BOOLEAN :
                    LET r == rng_pool_put(pool[p], store, nsamples + 1)
                    IN  r.ret = -ENOBUFS /\ r.rng = pool[p])
    /\ [][\A p \in Pools :
            (IsFull(pool[p]) /\ pool'[p].first = pool[p].first) =>
                pool'[p] = pool[p]]_vars

\* the handler has run with both pools full (refilled after a get) and its
\* byte was dropped: both puts were rejected
C11_Witness ==
    /\ trig.by = "isr"
    /\ ~rng.event
    /\ rng.value = nsamples + 1
    /\ IsFull(pool["isr"])
    /\ IsFull(pool["thr"])
    /\ Len(getlog["isr"]) >= 1
    /\ Len(getlog["thr"]) >= 1

\* C12: a get asked for more bytes than the k the pool holds (by the first
\* and last it read) removes exactly those k and returns the shortfall; the
\* gets that blocking get_entropy then makes for the shortfall, into the same
\* buffer, fill the positions below: after every get of the call the
\* positions from the shortfall up hold the bytes removed so far, one run of
\* consecutive bytes of the thread-tier stream, the positions below the
\* shortfall are still unwritten, and no position was written twice.
C12_ShortfallCompleted ==
    (proc["t1"].pc = "get_start" /\ proc["t1"].cnt <= UINT8_MAX) =>
        LET pr == proc["t1"]
            k  == Min(pr.octets, Occ(pool["thr"].count, pr.first, pr.last))
        IN  /\ pr.ret = pr.octets - k
            /\ pool["thr"].first = (pr.first + k) % pool["thr"].count
            /\ Len(pr.got) = pr.cnt - pr.ret
            /\ ContiguousRun(pr.got)
            /\ \A i \in 0..(pr.cnt - 1) :
                  pr.buf[i] = IF i < pr.ret THEN 0 ELSE pr.got[pr.cnt - i]

\* after a get that fell short with some bytes delivered, a later get for the
\* shortfall has completed the request, reading across the end of the array
C12_Witness ==
    /\ proc["t1"].pc = "get_start"
    /\ proc["t1"].gets >= 2
    /\ proc["t1"].ret = 0
    /\ proc["t1"].octets >= 1
    /\ proc["t1"].octets < proc["t1"].cnt
    /\ proc["t1"].first > proc["t1"].last
    /\ pool["thr"].first > 0
    /\ pool["thr"].first <= proc["t1"].last

\* C13: non-blocking get_entropy_isr, for every 16-bit length, removes from
\* the ISR-tier pool and delivers exactly min(length, occupancy) bytes (by the
\* first and last it read); a length of 256 or more delivers all bytes
\* available.
C13_DeliversMin ==
    \A c \in Consumers :
        NonblockDone(c) =>
            LET k == Min(proc[c].len,
                         Occ(pool["isr"].count, proc[c].first, proc[c].last))
            IN  /\ Len(proc[c].got) = k
                /\ pool["isr"].first = (proc[c].first + k) % pool["isr"].count
                /\ \A i \in 1..k : proc[c].buf[proc[c].len - i] = proc[c].got[i]

\* a step of the interrupt handler that sampled a byte
HandlerStep == irq_en /\ rng.event /\ trig'.by = "isr"

\* pool r2 is pool r after byte was stored at its last index
Stored(r, r2, byte) ==
    r2 = [r EXCEPT !.rand[r.last] = byte, !.last = (r.last + 1) % r.count]

\* C14 as stated: the byte is put into the ISR tier; if that put left the
\* ISR tier with room the same byte is also put into the thread tier; if
\* that put reported Full the thread tier is not written and no wake is
\* given.
C14_BothTiers ==
    [][HandlerStep =>
          IF IsFull(pool["isr"])
          THEN pool'["thr"] = pool["thr"] /\ sem_sync' = sem_sync
          ELSE /\ Stored(pool["isr"], pool'["isr"], rng.value)
               /\ (~IsFull(pool'["isr"]) /\ ~IsFull(pool["thr"])) =>
                     Stored(pool["thr"], pool'["thr"], rng.value)]_vars

\* C14 amended: the byte is put into the ISR tier; if that put stored it,
\* the thread tier is not written, and if it left the ISR tier with room no
\* wake is given; if that put reported Full, the byte is put into the thread
\* tier (stored there unless that tier is full too); the wake is given
\* whenever the ISR tier is full after its put.
C14_ThreadTierWhenIsrFull ==
    [][HandlerStep =>
          /\ IF IsFull(pool["isr"])
             THEN /\ pool'["isr"] = pool["isr"]
                  /\ IF IsFull(pool["thr"])
                     THEN pool'["thr"] = pool["thr"]
                     ELSE Stored(pool["thr"], pool'["thr"], rng.value)
             ELSE /\ Stored(pool["isr"], pool'["isr"], rng.value)
                  /\ pool'["thr"] = pool["thr"]
          /\ IF IsFull(pool'["isr"])
             THEN sem_sync' = 1
             ELSE sem_sync' = sem_sync]_vars

\* the handler found the ISR tier full (after a get had drained it), stored
\* its byte in the thread tier and gave the wake
C14_Witness ==
    /\ trig = [by |-> "isr", task |-> "NONE"]
    /\ IsFull(pool["isr"])
    /\ Len(getlog["isr"]) >= 1
    /\ Len(putlog["thr"]) >= 1
    /\ putlog["thr"][Len(putlog["thr"])] = nsamples
    /\ sem_sync = 1

\* C15 as stated: the handler gives the wake (sem_sync) only in invocations
\* that stored a byte in the thread tier.
C15_WakeOnlyOnStore ==
    [][(HandlerStep /\ sem_sync' # sem_sync) =>
          pool'["thr"] # pool["thr"]]_vars

\* C15 amended: every invocation that stores a byte in the thread tier gives
\* the wake, and the wake is given only in invocations that leave the ISR
\* tier full; these include invocations that add no byte to the thread tier.
C15_WakeWhenIsrFull ==
    [][HandlerStep =>
          /\ pool'["thr"] # pool["thr"] => sem_sync' = 1
          /\ sem_sync' # sem_sync => IsFull(pool'["isr"])]_vars

\* the handler has given the wake to a waiting thread although no byte was
\* ever stored in the thread tier
C15_Witness ==
    /\ trig.by = "isr"
    /\ sem_sync = 1
    /\ putlog["thr"] = <<>>
    /\ IsFull(pool["isr"])
    /\ proc["t1"].pc = "ge_wait"

\* C16 as stated: a get triggers START if and only if the bytes remaining in
\* the pool after the copy are fewer than the threshold, the count compared
\* being the pool's true occupancy after the read.
C16_TrueOccupancy ==
    ByGet =>
        (trig.task = "START" <=>
            Occupancy(pool[LastGet.pool]) < pool[LastGet.pool].threshold)

\* C16 amended: a get triggers START if and only if its remaining count is
\* strictly less than the threshold; that count is the occupancy left by the
\* read as computed from the first and last the get read at its start, in
\* the contiguous and in the wrapped case; it is the pool's true occupancy
\* unless the handler stored a byte during the get, and then it is smaller.
C16_StartIffRemainingBelow ==
    ByGet =>
        LET pl == pool[LastGet.pool]
        IN  /\ trig.task = "START" <=> LastGet.remaining < pl.threshold
            /\ LastGet.remaining = Occ(pl.count, pl.first, LastGet.last)
            /\ IF pl.last = LastGet.last
               THEN LastGet.remaining = Occupancy(pl)
               ELSE LastGet.remaining < Occupancy(pl)

\* a get that read a wrapped pool and left threshold-1 bytes has triggered
\* START
C16_Witness ==
    /\ ByGet
    /\ trig.task = "START"
    /\ LastGet.first > LastGet.last
    /\ LastGet.remaining >= 1
    /\ LastGet.remaining = pool[LastGet.pool].threshold - 1

\* a get that left exactly threshold bytes in a wrapped pool has triggered
\* no START
C16_WitnessAtThreshold ==
    /\ ByGet
    /\ trig.task = "NONE"
    /\ pool[LastGet.pool].first > LastGet.last
    /\ LastGet.remaining = pool[LastGet.pool].threshold

\* a step of rng_pool_get made by caller p
GetStep(p) ==
    proc[p].pc \in {"get_copy", "get_start"} /\ proc'[p].pc # proc[p].pc

\* what no get(0) may change: the pools, the caller's buffer, the return
\* value 0, the semaphores and the interrupt line
ZeroGetFrame(p) ==
    /\ pool' = pool
    /\ proc'[p].buf = proc[p].buf
    /\ proc'[p].ret = 0
    /\ proc'[p].got = <<>>
    /\ <<sem_lock, sem_sync, irq_en>>' = <<sem_lock, sem_sync, irq_en>>

\* C17 as stated: a get of 0 bytes returns 0 and changes nothing: not the
\* pool, not the buffer, and it triggers no START or other hardware action,
\* whatever the occupancy.
C17_ZeroGetNoOp ==
    [][\A p \in Procs :
          (GetStep(p) /\ proc[p].octets = 0) =>
              (ZeroGetFrame(p) /\ trig'.task = "NONE" /\ rng' = rng)]_vars

\* C17 amended: a get of 0 bytes returns 0 and leaves first, last, the
\* stored bytes and the buffer as they were; it triggers START if the
\* occupancy it read is below the threshold, and nothing else.
C17_ZeroGetOnlyStarts ==
    [][\A p \in Procs :
          (GetStep(p) /\ proc[p].octets = 0) =>
              /\ ZeroGetFrame(p)
              /\ IF /\ proc[p].pc = "get_start"
                    /\ Occ(pool[proc[p].pool].count, proc[p].first, proc[p].last)
                          < pool[proc[p].pool].threshold
                 THEN trig'.task = "START" /\ rng' = [rng EXCEPT !.running = TRUE]
                 ELSE trig'.task = "NONE" /\ rng' = rng]_vars

\* a get of 0 bytes on a pool that holds bytes, but fewer than its
\* threshold, has triggered START
C17_Witness ==
    /\ trig = [by |-> "c1", task |-> "START"]
    /\ proc["c1"].octets = 0
    /\ proc["c1"].len = 0
    /\ Occupancy(pool["isr"]) >= 1
    /\ pool["isr"].last = proc["c1"].last
    /\ Len(getlog["isr"]) >= 1

\* bytes stored in pool p and not yet removed
Unread(p) == Len(putlog[p]) - Len(getlog[p])

\* C18: in every reachable state of each pool, also between the steps of a
\* get that the handler's put preempts, first and last are in [0, count),
\* the pool holds no unread byte iff first = last, and the number of unread
\* bytes (the distance from first to last) never exceeds count-1.
C18_PoolInvariant ==
    \A p \in Pools :
        /\ pool[p].first \in 0..(pool[p].count - 1)
        /\ pool[p].last \in 0..(pool[p].count - 1)
        /\ Unread(p) = 0 <=> pool[p].first = pool[p].last
        /\ Unread(p) = Occupancy(pool[p])
        /\ Unread(p) <= pool[p].count - 1

\* the handler has stored a byte in the thread tier between the copy and the
\* watermark test of a thread's get, and the unread bytes now wrap around
\* the end of the array
C18_Witness ==
    /\ proc["t1"].pc = "get_start"
    /\ pool["thr"].last # proc["t1"].last
    /\ trig.by = "isr"
    /\ pool["thr"].first > pool["thr"].last
    /\ Len(proc["t1"].got) >= 1

\* C19: a byte the handler samples is stored in at most one pool: in the ISR
\* tier if that has room on entry, otherwise in the thread tier if that has
\* room, otherwise nowhere; so no byte is stored in both pools, and none is
\* delivered both from the ISR tier and from the thread tier.
C19_OneTierPerByte ==
    /\ [](/\ Range(putlog["isr"]) \cap Range(putlog["thr"]) = {}
          /\ Range(getlog["isr"]) \cap Range(getlog["thr"]) = {})
    /\ [][HandlerStep =>
            IF ~IsFull(pool["isr"])
            THEN Stored(pool["isr"], pool'["isr"], rng.value)
                 /\ pool'["thr"] = pool["thr"]
            ELSE IF ~IsFull(pool["thr"])
            THEN pool'["isr"] = pool["isr"]
                 /\ Stored(pool["thr"], pool'["thr"], rng.value)
            ELSE pool' = pool /\ putlog' = putlog]_vars

\* a thread and an ISR-tier caller have both returned with bytes
C19_Witness ==
    /\ BlockingDone("t1")
    /\ Len(proc["t1"].got) >= 1
    /\ NonblockDone("c1")
    /\ Len(proc["c1"].got) >= 1

\* caller p is inside rng_pool_get
InGet(p) == proc[p].pc \in {"get_copy", "get_start"}

\* C20: whenever the generator is stopped and no get is in progress, each
\* pool holds at least threshold bytes: the generator is never left idle
\* with a pool below its watermark.
C20_NeverIdleBelowWatermark ==
    (~rng.running /\ \A p \in Procs : ~InGet(p)) =>
        \A p \in Pools : Occupancy(pool[p]) >= pool[p].threshold

\* the generator is stopped after gets on both pools, the last of which
\* left the thread tier at its threshold, below capacity, and triggered no
\* START
C20_Witness ==
    /\ ~rng.running
    /\ \A p \in Procs : ~InGet(p)
    /\ Len(getlog["isr"]) >= 1
    /\ Len(getlog["thr"]) >= 1
    /\ ~IsFull(pool["thr"])
    /\ Occupancy(pool["thr"]) = pool["thr"].threshold

=============================================================================
